---- MODULE Spec2Model ----
(***************************************************************************)
(* Reference-counted mount orchestrator of the vSphere Docker volume       *)
(* plugin (package vsphere, VolumeDriver), with the identity resolver of   *)
(* package plugin_utils and the reference-count store of package refcount. *)
(*                                                                         *)
(* The driver modelled is the revision that keeps the mounted-volume       *)
(* table (mountedVols / mountedVolumes) and takes the state lock in Mount  *)
(* and Unmount.  The reference-count store (refcount.RefCountsMap) and the *)
(* storage backends are not part of the sources at hand: the store is      *)
(* modelled from its specification, the backends as an environment whose   *)
(* calls succeed or fail nondeterministically.                             *)
(***************************************************************************)
EXTENDS Naturals, Integers, FiniteSets, Sequences, TLC

(***************************************************************************)
(* Bounds of the model.                                                    *)
(***************************************************************************)
NumThreads == 2
MaxReqs == 3

Threads == 1..NumThreads

(***************************************************************************)
(* Volume names.  A name is the pair of the text before '@' and the text   *)
(* after it; a bare name has the empty datastore label.                    *)
(***************************************************************************)
vmdkImpl == "vmdk"
nfsImpl == "nfs"

VolNames == {"data1"}
DSLabels == {"ds1", "nfs1"}

Name(v, d) == [vol |-> v, ds |-> d]
NoName == Name("", "")
FullNames == {Name(v, d) : v \in VolNames, d \in DSLabels}
BareNames == {Name(v, "") : v \in VolNames}
AllNames == FullNames \cup BareNames

\* The names requests are issued with.
ReqNames ==
    {Name("data1", ""), Name("data1", "ds1"), Name("data1", "nfs1")}

\* strings.ContainsAny(name, "@")
IsFullVolumeName(name) == name.ds # ""

\* plugin_utils.GetDSLabel: the text after '@', "" when there is none.
GetDSLabel(name) == name.ds

\* strings.Join([]string{name, datastoreName}, "@")
JoinName(name, datastoreName) == Name(name.vol, datastoreName)

\* config.RemoteDirs: datastore label -> backend type of the remote dir.
RemoteDirs == [l \in {"nfs1"} |-> nfsImpl]

\* The "datastore" key of the volume metadata the backend returns for a
\* bare volume name (GetVolume).
MetaDatastore == [v \in VolNames |-> "ds1"]

(***************************************************************************)
(* The OS mount table: one entry per mount, the directory the mount point  *)
(* lies in and the last element of its path.                               *)
(***************************************************************************)
mountRoot == "/mnt/vmdk"

\* Mounts of the host that do not belong to the plugin.
OtherMounts == {[dir |-> "/mnt/other", base |-> Name("data1", "ds1")]}

\* /proc/mounts when the volumes of the set mounted are mounted under the
\* mount root.
MountTable(mounted) == {[dir |-> mountRoot, base |-> n] : n \in mounted} \cup OtherMounts

\* A scan that forgets to filter on the mount root.
GetMountInfo_AnyDir(table, root) == {e.base : e \in table}

\* GetMountInfo: the entries whose directory is root, by their last element.
GetMountInfo(table, root) == {e.base : e \in {x \in table : x.dir = root}}

\* AlreadyMounted: the volume is in the mount table under root.
AlreadyMounted(name, table, root) == name \in GetMountInfo(table, root)

(***************************************************************************)
(* Reference-count store.                                                  *)
(***************************************************************************)
\* GetCount: current count, 0 when absent.
GetCount(counts, vol) == counts[vol]

\* Incr: increments and returns the new value.
Incr(counts, vol) ==
    [counts |-> [counts EXCEPT ![vol] = @ + 1], refcnt |-> counts[vol] + 1]

\* Decr: Underflow when the count is zero or absent, else decrement.
Decr(counts, vol) ==
    IF counts[vol] = 0
    THEN [counts |-> counts, refcnt |-> 0, err |-> "Underflow"]
    ELSE [counts |-> [counts EXCEPT ![vol] = @ - 1], refcnt |-> counts[vol] - 1,
          err |-> ""]

\* The names the store holds a reference for.
VolumesInRefMap(counts) == {n \in AllNames : counts[n] > 0}

\* A recovery that seeds nothing.
SeedCounts_None(counts, mounted) == counts

\* Recovery seeds the count of every volume found mounted to one.
SeedCounts(counts, mounted) ==
    [n \in AllNames |-> IF n \in mounted THEN 1 ELSE counts[n]]

(***************************************************************************)
(* Identity resolver.                                                      *)
(***************************************************************************)
\* A lookup that settles for any of several matching names.
GetNameFromRefmap_Any(volName, counts) ==
    LET matches == {n \in VolumesInRefMap(counts) : n.vol = volName.vol}
    IN  IF matches # {} THEN CHOOSE n \in matches : TRUE ELSE NoName

\* GetNameFromRefmap: the only name of the refmap whose part before '@' is
\* volName; "" when there is none or more than one.
GetNameFromRefmap(volName, counts) ==
    LET matches == {n \in VolumesInRefMap(counts) : n.vol = volName.vol}
    IN  IF Cardinality(matches) = 1 THEN CHOOSE n \in matches : TRUE ELSE NoName

\* GetDatastore: the datastore of the volume's metadata, or an error when
\* the metadata cannot be read (metaOK false).
GetDatastore(name, metaOK) ==
    IF metaOK THEN [ds |-> MetaDatastore[name.vol], err |-> ""]
    ELSE [ds |-> "", err |-> "ErrGetVolume"]

\* GetFullNameAndMeta(name, datastoreName, d)
GetFullNameAndMeta(name, datastoreName, counts, metaOK) ==
    IF IsFullVolumeName(name) THEN [name |-> name, err |-> ""]
    ELSE IF datastoreName # "" THEN [name |-> JoinName(name, datastoreName), err |-> ""]
    ELSE IF GetNameFromRefmap(name, counts) # NoName
         THEN [name |-> GetNameFromRefmap(name, counts), err |-> ""]
    ELSE IF GetDatastore(name, metaOK).err # ""
         THEN [name |-> NoName, err |-> GetDatastore(name, metaOK).err]
    ELSE [name |-> JoinName(name, GetDatastore(name, metaOK).ds), err |-> ""]

\* GetFullVolumeName(name, datastoreName, d), the resolver of the revision
\* that has no reference-map lookup.
GetFullVolumeName(name, datastoreName, metaOK) ==
    IF IsFullVolumeName(name) THEN [name |-> name, err |-> ""]
    ELSE IF datastoreName # "" THEN [name |-> JoinName(name, datastoreName), err |-> ""]
    ELSE IF GetDatastore(name, metaOK).err # ""
         THEN [name |-> NoName, err |-> GetDatastore(name, metaOK).err]
    ELSE [name |-> JoinName(name, GetDatastore(name, metaOK).ds), err |-> ""]

\* plugin_utils.GetVolumeInfo(r.Name, "", d): the fully qualified name.
GetVolumeInfo(name, counts, metaOK) == GetFullNameAndMeta(name, "", counts, metaOK)

(***************************************************************************)
(* State.                                                                  *)
(***************************************************************************)
VARIABLES
    refCounts,       \* RefCountsMap: name -> count (0 when absent)
    initSucceeded,   \* RefCountsMap: recovery has completed
    dirty,           \* RefCountsMap: the dirty flag
    stateLock,       \* the state lock: 0 when free, else the holding thread
    mountedVolumes,  \* VolumeDriver.mountedVols: name -> fsType ("" when absent)
    physMounted,     \* the volumes mounted under the mount root (OS mount table)
    priorMounted,    \* the volumes a previous process instance left mounted
    rpc,             \* position of the background recovery task
    snapshot,        \* the mount table as the recovery pass read it
    pc,              \* position of each request thread
    req,             \* the request each thread serves
    impl,            \* local volImpl/fstype of the request
    fname,           \* local fname of the request
    refcnt,          \* local refcnt of the request
    resp,            \* the response last returned to each thread
    backendErr,      \* the result of the backend call made for the request
    nreqs,           \* number of requests issued so far
    mountIDtoName,   \* VolumeDriver.mountIDtoName: mount id -> name ("" when
                     \* absent), of the revision that keeps mount ids
    hist             \* observation counters (not program state)

vars == <<refCounts, initSucceeded, dirty, stateLock, mountedVolumes, physMounted,
          priorMounted, rpc, snapshot, pc, req, impl, fname, refcnt, resp,
          backendErr, nreqs, mountIDtoName, hist>>

NoFS == ""
NoReq == [op |-> "none", name |-> NoName]
NoResp == [err |-> "", mp |-> NoName, how |-> "none", via |-> ""]
\* A response: the error text, the mount point (the volume it belongs to), the
\* path the handler took, and the backend the handler called ("" for none).
Response(e, m, h, b) == [err |-> e, mp |-> m, how |-> h, via |-> b]

ZeroCounts == [n \in AllNames |-> 0]
NoHelper == [op |-> "none", name |-> NoName, via |-> NoFS, err |-> ""]

\* The mount ids requests carry (volume.MountRequest.ID).
MountIDs == {"id1", "id2"}

\* Observation counters, per fully qualified name:
\*   mountInv / mountFail  backend physical mounts invoked / failed
\*   umountInv / umountFail  backend physical unmounts invoked / failed
\*   nMount                Mount requests that returned success
\*   nUnmount              Unmount requests received (deferred ones included)
\*   nDecr                 Unmount requests that reached the decrement
\*   nUnder                decrements that reported Underflow
\*   base, mAtRec          count and nMount when recovery completed
\*   marked                MarkDirty was called since the running recovery
\*                         pass began (FALSE when no pass is running)
\*   mountedBy             the backend whose physical mount holds the volume
\*                         ("" when this process has not mounted it)
\*   nHelper, helper       calls of MountVolume / UnmountVolume made, and the
\*                         last one: its name, argument, backend and result
HistInit ==
    [mountInv |-> ZeroCounts, mountFail |-> ZeroCounts, umountInv |-> ZeroCounts,
     nMount |-> ZeroCounts, nUnmount |-> ZeroCounts, nDecr |-> ZeroCounts,
     nUnder |-> ZeroCounts, umountFail |-> ZeroCounts, base |-> ZeroCounts, mAtRec |-> ZeroCounts,
     marked |-> FALSE, mountedBy |-> [n \in AllNames |-> NoFS],
     nHelper |-> 0, helper |-> NoHelper]

Bump(h, field, n) == [h EXCEPT ![field][n] = @ + 1]

\* The backend b has mounted the volume n; the volume has been unmounted.
MountedBy(h, n, b) == [h EXCEPT !.mountedBy[n] = b]

\* A recovery pass is running.
PassRunning(r) == r \in {"reading", "writing"}

\* MarkDirty was called: noted when a recovery pass is running.
Marked(h, r) == [h EXCEPT !.marked = PassRunning(r)]

\* The recovery pass has ended.
PassEnded(h) == [h EXCEPT !.marked = FALSE]

Init ==
    /\ refCounts = ZeroCounts
    /\ initSucceeded = FALSE
    /\ dirty = FALSE
    /\ stateLock = 0
    /\ mountedVolumes = [n \in AllNames |-> NoFS]
    /\ priorMounted \in SUBSET {Name("data1", "nfs1")}
    /\ physMounted = priorMounted
    /\ rpc = "idle"
    /\ snapshot = {}
    /\ pc = [t \in Threads |-> "idle"]
    /\ req = [t \in Threads |-> NoReq]
    /\ impl = [t \in Threads |-> NoFS]
    /\ fname = [t \in Threads |-> NoName]
    /\ refcnt = [t \in Threads |-> 0]
    /\ resp = [t \in Threads |-> NoResp]
    /\ backendErr = [t \in Threads |-> ""]
    /\ nreqs = 0
    /\ mountIDtoName = [i \in MountIDs |-> NoName]
    /\ hist = HistInit

(***************************************************************************)
(* Driver helpers.                                                         *)
(***************************************************************************)
getRefCount(counts, vol) == GetCount(counts, vol)
incrRefCount(counts, vol) == Incr(counts, vol)

\* A decrement that does not look at the count first.
decrRefCount_Unchecked(counts, vol) ==
    [counts |-> [counts EXCEPT ![vol] = @ - 1], refcnt |-> counts[vol] - 1, err |-> ""]

decrRefCount(counts, vol) == Decr(counts, vol)

\* A lookup that forgets the configured labels.
getVolImplWithFSType_NoLabel(table, name) ==
    IF table[name] # NoFS THEN table[name] ELSE vmdkImpl

\* getVolImplWithFSType: the backing recorded for a mounted volume, else
\* the one configured for the datastore label, else vmdk.
getVolImplWithFSType(table, name) ==
    IF table[name] # NoFS THEN table[name]
    ELSE IF GetDSLabel(name) # "" /\ GetDSLabel(name) \in DOMAIN RemoteDirs
         THEN RemoteDirs[GetDSLabel(name)]
    ELSE vmdkImpl

\* VolumeImpl.IsMounted: the volume is mounted under the mount root.
IsMounted(mounted, name) == AlreadyMounted(name, MountTable(mounted), mountRoot)

\* A Mount that trusts the count alone.
SkipMount_CountOnly(cnt, mounted, name) == cnt > 1

\* A Mount that never skips the physical mount.
SkipMount_Never(cnt, mounted, name) == FALSE

\* Mount: "if refcnt > 1 || volImpl.IsMounted(fname)" - skip the mount.
SkipMount(cnt, mounted, name) == cnt > 1 \/ IsMounted(mounted, name)

\* A lock that lets every caller in.
LockStateLock_NoWait(lock) == TRUE

\* d.refCounts.LockStateLock(): the caller goes on once the lock is free.
LockStateLock(lock) == lock = 0

\* An exit that keeps the lock.
UnlockStateLock_Leak(lock) == lock

\* defer d.refCounts.UnlockStateLock(): the lock is free after the return.
UnlockStateLock(lock) == 0

\* An Unmount that takes a count of zero for a volume in use.
StillInUse_OrZero(cnt) == cnt >= 0

\* Mount: d.mountedVolumes[fname].fsType = fstype
TrackVolume(table, name, fstype) == [table EXCEPT ![name] = fstype]

\* delete(d.mountedVolumes, fname)
UntrackVolume(table, name) == [table EXCEPT ![name] = NoFS]

\* An Unmount that never defers.
DeferUnmount_Never(initOK) == FALSE

\* Unmount: "if d.refCounts.GetInitSuccess() != true" - defer the unmount.
DeferUnmount(initOK) == initOK # TRUE

\* An Unmount that keeps the volume only for two or more remaining users.
StillInUse_Two(cnt) == cnt >= 2

\* Unmount: "if refcnt >= 1" - still in use, skip the unmount.
StillInUse(cnt) == cnt >= 1

\* A Remove that never consults the count.
RemoveRefused_Never(counts, name) == FALSE

\* Remove: "if d.getRefCount(r.Name) != 0" - refuse the removal.
RemoveRefused(counts, name) == getRefCount(counts, name) # 0

\* A rollback that forgets the decrement.
MountRollback_NoDecr(counts, table, name) ==
    [counts |-> counts, table |-> [table EXCEPT ![name] = ""], dirty |-> FALSE]

\* A rollback that leaves the volume in the table.
MountRollback_KeepEntry(counts, table, name) ==
    [counts |-> [counts EXCEPT ![name] = IF @ = 0 THEN 0 ELSE @ - 1],
     table |-> table, dirty |-> FALSE]

\* Mount, on a failed backend mount: d.decrRefCount(fname);
\* d.refCounts.ClearDirty(); delete(d.mountedVolumes, fname)
MountRollback(counts, table, name) ==
    [counts |-> decrRefCount(counts, name).counts,
     table |-> UntrackVolume(table, name),
     dirty |-> FALSE]

\* The fully qualified name an Unmount request is accounted to while
\* unmounts are deferred (observation only).
AccountName(name, counts) == GetVolumeInfo(name, counts, TRUE).name

\* A Mount that counts the volume before it resolves the name.
MountNoInfo_Counted(counts, table, name) ==
    [counts |-> incrRefCount(counts, name).counts, table |-> table]

\* Mount returns the resolution error before it tracks or counts the volume:
\* the counts and the table it leaves.
MountNoInfo(counts, table, name) == [counts |-> counts, table |-> table]

\* A dispatch that hands out requests only while the state lock is free.
Accepts_LockFree(t) ==
    /\ pc[t] = "idle"
    /\ \A u \in Threads : u < t => pc[u] # "idle"
    /\ stateLock = 0

\* A request is served by the first idle handler thread (the threads are
\* interchangeable).
Accepts(t) ==
    /\ pc[t] = "idle"
    /\ \A u \in Threads : u < t => pc[u] # "idle"

(***************************************************************************)
(* Mount.                                                                  *)
(***************************************************************************)
\* The request arrives; the backing is resolved before the lock is taken.
MountBegin(t, name) ==
    /\ Accepts(t)
    /\ nreqs < MaxReqs
    /\ nreqs' = nreqs + 1
    /\ req' = [req EXCEPT ![t] = [op |-> "Mount", name |-> name]]
    /\ impl' = [impl EXCEPT ![t] = getVolImplWithFSType(mountedVolumes, name)]
    /\ resp' = [resp EXCEPT ![t] = NoResp]
    /\ backendErr' = [backendErr EXCEPT ![t] = ""]
    /\ pc' = [pc EXCEPT ![t] = "m_lock"]
    /\ UNCHANGED <<refCounts, initSucceeded, dirty, stateLock, mountedVolumes,
                   physMounted, priorMounted, rpc, snapshot, fname, refcnt, hist>>
    /\ UNCHANGED mountIDtoName

\* Lock, MarkDirty, resolve the full name, track the volume, increment, and
\* either return (resolution error, already mounted) or call the backend.
MountEnter(t, metaOK) ==
    /\ pc[t] = "m_lock"
    /\ LockStateLock(stateLock)
    /\ LET info == GetVolumeInfo(req[t].name, refCounts, metaOK)
           f == info.name
           inc == incrRefCount(refCounts, f)
       IN  IF info.err # ""
           THEN /\ dirty' = TRUE
                /\ resp' = [resp EXCEPT ![t] = Response(info.err, NoName, "noinfo", "")]
                /\ pc' = [pc EXCEPT ![t] = "idle"]
                /\ impl' = [impl EXCEPT ![t] = NoFS]
                /\ hist' = Marked(hist, rpc)
                /\ refCounts' = MountNoInfo(refCounts, mountedVolumes, req[t].name).counts
                /\ mountedVolumes' = MountNoInfo(refCounts, mountedVolumes, req[t].name).table
                /\ UNCHANGED <<stateLock, fname, refcnt>>
           ELSE IF SkipMount(inc.refcnt, physMounted, f)
           THEN /\ dirty' = TRUE
                /\ mountedVolumes' = TrackVolume(mountedVolumes, f, impl[t])
                /\ refCounts' = inc.counts
                /\ resp' = [resp EXCEPT ![t] = Response("", f, "skipped", impl[t])]
                /\ pc' = [pc EXCEPT ![t] = "idle"]
                /\ impl' = [impl EXCEPT ![t] = NoFS]
                /\ hist' = Marked(Bump(hist, "nMount", f), rpc)
                /\ UNCHANGED <<stateLock, fname, refcnt>>
           ELSE /\ dirty' = TRUE
                /\ mountedVolumes' = TrackVolume(mountedVolumes, f, impl[t])
                /\ refCounts' = inc.counts
                /\ stateLock' = t
                /\ fname' = [fname EXCEPT ![t] = f]
                /\ refcnt' = [refcnt EXCEPT ![t] = inc.refcnt]
                /\ pc' = [pc EXCEPT ![t] = "m_backend"]
                /\ hist' = Marked(Bump(hist, "mountInv", f), rpc)
                /\ UNCHANGED <<resp, impl>>
    /\ UNCHANGED <<initSucceeded, physMounted, priorMounted, rpc, snapshot, req,
                   backendErr, nreqs>>
    /\ UNCHANGED mountIDtoName

\* The backend's physical mount returns; a failure is rolled back.
MountBackend(t, ok) ==
    /\ pc[t] = "m_backend"
    /\ LET f == fname[t]
           rb == MountRollback(refCounts, mountedVolumes, f)
       IN  IF ok
           THEN /\ physMounted' = physMounted \cup {f}
                /\ backendErr' = [backendErr EXCEPT ![t] = ""]
                /\ resp' = [resp EXCEPT ![t] = Response("", f, "mounted", impl[t])]
                /\ hist' = MountedBy(Bump(hist, "nMount", f), f, impl[t])
                /\ UNCHANGED <<refCounts, mountedVolumes, dirty>>
           ELSE /\ refCounts' = rb.counts
                /\ mountedVolumes' = rb.table
                /\ dirty' = rb.dirty
                /\ backendErr' = [backendErr EXCEPT ![t] = "ErrMount"]
                /\ resp' = [resp EXCEPT ![t] = Response("ErrMount", NoName, "mountfailed", impl[t])]
                /\ hist' = Bump(hist, "mountFail", f)
                /\ UNCHANGED physMounted
    /\ stateLock' = UnlockStateLock(stateLock)
    /\ pc' = [pc EXCEPT ![t] = "idle"]
    /\ impl' = [impl EXCEPT ![t] = NoFS]
    /\ fname' = [fname EXCEPT ![t] = NoName]
    /\ refcnt' = [refcnt EXCEPT ![t] = 0]
    /\ UNCHANGED <<initSucceeded, priorMounted, rpc, snapshot, req, nreqs>>
    /\ UNCHANGED mountIDtoName

(***************************************************************************)
(* Unmount.                                                                *)
(***************************************************************************)
\* The request arrives; the backing is resolved before the lock is taken.
UnmountBegin(t, name) ==
    /\ Accepts(t)
    /\ nreqs < MaxReqs
    /\ nreqs' = nreqs + 1
    /\ req' = [req EXCEPT ![t] = [op |-> "Unmount", name |-> name]]
    /\ impl' = [impl EXCEPT ![t] = getVolImplWithFSType(mountedVolumes, name)]
    /\ resp' = [resp EXCEPT ![t] = NoResp]
    /\ backendErr' = [backendErr EXCEPT ![t] = ""]
    /\ pc' = [pc EXCEPT ![t] = "u_lock"]
    /\ UNCHANGED <<refCounts, initSucceeded, dirty, stateLock, mountedVolumes,
                   physMounted, priorMounted, rpc, snapshot, fname, refcnt, hist>>
    /\ UNCHANGED mountIDtoName

\* Unmount, "if fname, exist := d.mountedVolumes[...]; exist { delete } else
\* { GetVolumeInfo }": the table is looked up with the name of the request
\* (the only name the handler holds at that point); a tracked name is
\* dropped from the table and is the full name, any other is resolved.
UnmountName(table, name, counts, metaOK) ==
    IF table[name] # NoFS
    THEN [name |-> name, err |-> "", table |-> UntrackVolume(table, name)]
    ELSE [name |-> GetVolumeInfo(name, counts, metaOK).name,
          err |-> GetVolumeInfo(name, counts, metaOK).err,
          table |-> table]

\* Lock; while recovery has not succeeded MarkDirty and return; else find
\* the full name, decrement, and either return (resolution error, still in
\* use) or call the backend.
UnmountEnter(t, metaOK) ==
    /\ pc[t] = "u_lock"
    /\ LockStateLock(stateLock)
    /\ LET un == UnmountName(mountedVolumes, req[t].name, refCounts, metaOK)
           f == un.name
           dec == decrRefCount(refCounts, f)
       IN  IF DeferUnmount(initSucceeded)
           THEN /\ dirty' = TRUE
                /\ resp' = [resp EXCEPT ![t] = Response("", NoName, "deferred", "")]
                /\ pc' = [pc EXCEPT ![t] = "idle"]
                /\ impl' = [impl EXCEPT ![t] = NoFS]
                /\ hist' = Marked(Bump(hist, "nUnmount",
                                        AccountName(req[t].name, refCounts)), rpc)
                /\ UNCHANGED <<refCounts, mountedVolumes, stateLock, fname, refcnt>>
           ELSE IF un.err # ""
           THEN /\ resp' = [resp EXCEPT ![t] = Response(un.err, NoName, "noinfo", "")]
                /\ pc' = [pc EXCEPT ![t] = "idle"]
                /\ impl' = [impl EXCEPT ![t] = NoFS]
                /\ UNCHANGED <<refCounts, mountedVolumes, dirty, stateLock, fname,
                               refcnt, hist>>
           ELSE IF StillInUse(dec.refcnt)
           THEN /\ refCounts' = dec.counts
                /\ mountedVolumes' = un.table
                /\ resp' = [resp EXCEPT ![t] = Response("", NoName, "inuse", "")]
                /\ pc' = [pc EXCEPT ![t] = "idle"]
                /\ impl' = [impl EXCEPT ![t] = NoFS]
                /\ hist' = Bump(Bump(hist, "nUnmount", f), "nDecr", f)
                /\ UNCHANGED <<dirty, stateLock, fname, refcnt>>
           ELSE /\ refCounts' = dec.counts
                /\ mountedVolumes' = un.table
                /\ stateLock' = t
                /\ fname' = [fname EXCEPT ![t] = f]
                /\ refcnt' = [refcnt EXCEPT ![t] = dec.refcnt]
                /\ pc' = [pc EXCEPT ![t] = "u_backend"]
                /\ hist' = LET h1 == Bump(Bump(hist, "nUnmount", f), "nDecr", f)
                               h2 == Bump(h1, "umountInv", f)
                           IN  IF dec.err # "" THEN Bump(h2, "nUnder", f) ELSE h2
                /\ UNCHANGED <<dirty, resp, impl>>
    /\ UNCHANGED <<initSucceeded, physMounted, priorMounted, rpc, snapshot, req,
                   backendErr, nreqs>>
    /\ UNCHANGED mountIDtoName

\* An Unmount that drops the backend's result and reports success.
UnmountReturn_AlwaysOK(err, b) == Response("", NoName, "unmounted", b)

\* Unmount: "return volImpl.Umount(volume.UnmountRequest{Name: fname})" -
\* the response is the backend's.
UnmountReturn(err, b) ==
    Response(err, NoName, IF err = "" THEN "unmounted" ELSE "umountfailed", b)

\* The backend's physical unmount returns; its result is the response.
UnmountBackend(t, ok) ==
    /\ pc[t] = "u_backend"
    /\ physMounted' = IF ok THEN physMounted \ {fname[t]} ELSE physMounted
    /\ backendErr' = [backendErr EXCEPT ![t] = IF ok THEN "" ELSE "ErrUnmount"]
    /\ resp' = [resp EXCEPT ![t] = UnmountReturn(IF ok THEN "" ELSE "ErrUnmount", impl[t])]
    /\ stateLock' = UnlockStateLock(stateLock)
    /\ pc' = [pc EXCEPT ![t] = "idle"]
    /\ impl' = [impl EXCEPT ![t] = NoFS]
    /\ fname' = [fname EXCEPT ![t] = NoName]
    /\ refcnt' = [refcnt EXCEPT ![t] = 0]
    /\ hist' = IF ok THEN MountedBy(hist, fname[t], NoFS)
                ELSE Bump(hist, "umountFail", fname[t])
    /\ UNCHANGED <<refCounts, initSucceeded, dirty, mountedVolumes, priorMounted, rpc,
                   snapshot, req, nreqs>>
    /\ UNCHANGED mountIDtoName

(***************************************************************************)
(* Remove.                                                                 *)
(***************************************************************************)
\* The request arrives and the reference count of its name is read; the
\* removal is refused when it is not zero.
RemoveCheck(t, name) ==
    /\ Accepts(t)
    /\ nreqs < MaxReqs
    /\ nreqs' = nreqs + 1
    /\ req' = [req EXCEPT ![t] = [op |-> "Remove", name |-> name]]
    /\ backendErr' = [backendErr EXCEPT ![t] = ""]
    /\ IF RemoveRefused(refCounts, name)
       THEN /\ resp' = [resp EXCEPT ![t] = Response("ErrStillMounted", NoName, "refused", "")]
            /\ pc' = pc
       ELSE /\ resp' = [resp EXCEPT ![t] = NoResp]
            /\ pc' = [pc EXCEPT ![t] = "r_call"]
    /\ UNCHANGED <<refCounts, initSucceeded, dirty, stateLock, mountedVolumes,
                   physMounted, priorMounted, rpc, snapshot, impl, fname, refcnt, hist>>
    /\ UNCHANGED mountIDtoName

\* The backing is resolved and its Remove called; its result is the response.
RemoveCall(t, ok) ==
    /\ pc[t] = "r_call"
    /\ LET b == getVolImplWithFSType(mountedVolumes, req[t].name)
       IN  resp' = [resp EXCEPT ![t] =
                       IF ok THEN Response("", NoName, "removed", b)
                       ELSE Response("ErrRemove", NoName, "removefailed", b)]
    /\ backendErr' = [backendErr EXCEPT ![t] = IF ok THEN "" ELSE "ErrRemove"]
    /\ pc' = [pc EXCEPT ![t] = "idle"]
    /\ UNCHANGED <<refCounts, initSucceeded, dirty, stateLock, mountedVolumes,
                   physMounted, priorMounted, rpc, snapshot, req, impl, fname, refcnt,
                   nreqs, hist>>
    /\ UNCHANGED mountIDtoName

(***************************************************************************)
(* Create, Get, Path, List: no lock is taken.                              *)
(***************************************************************************)
\* The values of the "type" option of a Create request: absent, or one of
\* the registered backing types.
TypeOpts == {"", vmdkImpl, nfsImpl}

\* A Create that honours the type option for file volumes only.
CreateImpl_FileOnly(name, ftype) ==
    IF ftype = nfsImpl THEN nfsImpl
    ELSE IF GetDSLabel(name) # "" /\ GetDSLabel(name) \in DOMAIN RemoteDirs
         THEN RemoteDirs[GetDSLabel(name)]
    ELSE vmdkImpl

\* Create: the backing named by the type option when there is one, else the
\* one configured for the datastore label, else vmdk.
CreateImpl(name, ftype) ==
    IF ftype # "" THEN ftype
    ELSE IF GetDSLabel(name) # "" /\ GetDSLabel(name) \in DOMAIN RemoteDirs
         THEN RemoteDirs[GetDSLabel(name)]
    ELSE vmdkImpl

\* Create: the Create of the chosen backing is called and its response
\* returned.
Create(t, name, ftype, ok) ==
    /\ Accepts(t)
    /\ nreqs < MaxReqs
    /\ nreqs' = nreqs + 1
    /\ req' = [req EXCEPT ![t] = [op |-> "Create", name |-> name, opt |-> ftype]]
    /\ resp' = [resp EXCEPT ![t] =
                    IF ok THEN Response("", NoName, "created", CreateImpl(name, ftype))
                    ELSE Response("ErrCreate", NoName, "createfailed", CreateImpl(name, ftype))]
    /\ backendErr' = [backendErr EXCEPT ![t] = IF ok THEN "" ELSE "ErrCreate"]
    /\ UNCHANGED <<refCounts, initSucceeded, dirty, stateLock, mountedVolumes,
                   physMounted, priorMounted, rpc, snapshot, pc, impl, fname, refcnt,
                   hist>>
    /\ UNCHANGED mountIDtoName

\* Get: the Get of the backing resolved for the name is called and its
\* response returned.
Get(t, name, ok) ==
    /\ Accepts(t)
    /\ nreqs < MaxReqs
    /\ nreqs' = nreqs + 1
    /\ req' = [req EXCEPT ![t] = [op |-> "Get", name |-> name]]
    /\ LET b == getVolImplWithFSType(mountedVolumes, name)
       IN  resp' = [resp EXCEPT ![t] =
                       IF ok THEN Response("", name, "got", b)
                       ELSE Response("ErrGet", NoName, "getfailed", b)]
    /\ backendErr' = [backendErr EXCEPT ![t] = IF ok THEN "" ELSE "ErrGet"]
    /\ UNCHANGED <<refCounts, initSucceeded, dirty, stateLock, mountedVolumes,
                   physMounted, priorMounted, rpc, snapshot, pc, impl, fname, refcnt,
                   hist>>
    /\ UNCHANGED mountIDtoName

\* A Path that calls the Remove of the backing.
PathCall_Remove(name, b) == Response("", NoName, "removed", b)

\* The response of Path: that of the backing's Path, the mount point of the
\* name.
PathCall(name, b) == Response("", name, "path", b)

\* Path: the Path of the backing resolved for the name is called and its
\* response returned.
Path(t, name) ==
    /\ Accepts(t)
    /\ nreqs < MaxReqs
    /\ nreqs' = nreqs + 1
    /\ req' = [req EXCEPT ![t] = [op |-> "Path", name |-> name]]
    /\ resp' = [resp EXCEPT ![t] =
                    PathCall(name, getVolImplWithFSType(mountedVolumes, name))]
    /\ backendErr' = [backendErr EXCEPT ![t] = ""]
    /\ UNCHANGED <<refCounts, initSucceeded, dirty, stateLock, mountedVolumes,
                   physMounted, priorMounted, rpc, snapshot, pc, impl, fname, refcnt,
                   hist>>
    /\ UNCHANGED mountIDtoName

\* The backings a List has called: vmdk, and nfs unless the vmdk List
\* failed.
bothImpl == "vmdk+nfs"
ListCalls(blkOK) == IF blkOK THEN bothImpl ELSE vmdkImpl

\* The volumes the List of each backing returns.
BlkVolumes == <<Name("data1", "ds1")>>
FilVolumes == <<Name("data1", "nfs1")>>

\* List appends to "volumes", a name the file declares and assigns nowhere
\* (the list got from the vmdk backing is held by blkVols): its value is
\* either the empty slice or, if the name is taken for blkVols, that list.
VolumesValues(blkVols) == {<<>>, blkVols}

\* responseVolumes := append(volumes, filVols...)
ListVolumes(volumes, filVols) == volumes \o filVols

\* The error of a List: that of the vmdk backing, else that of the nfs one.
ListErr(blkOK, filOK) ==
    IF ~blkOK THEN "ErrListBlk" ELSE IF ~filOK THEN "ErrListFil" ELSE ""

\* List: the List of the vmdk backing, then that of the nfs backing; the
\* first error is returned, else the appended volumes.
List(t, blkOK, filOK, volumes) ==
    /\ Accepts(t)
    /\ nreqs < MaxReqs
    /\ nreqs' = nreqs + 1
    /\ req' = [req EXCEPT ![t] = [op |-> "List", name |-> NoName]]
    /\ resp' = [resp EXCEPT ![t] =
                    IF blkOK /\ filOK
                    THEN Response("", NoName, "listed", ListCalls(blkOK))
                            @@ [vols |-> ListVolumes(volumes, FilVolumes)]
                    ELSE Response(ListErr(blkOK, filOK), NoName, "listfailed",
                                  ListCalls(blkOK)) @@ [vols |-> <<>>]]
    /\ backendErr' = [backendErr EXCEPT ![t] = ListErr(blkOK, filOK)]
    /\ UNCHANGED <<refCounts, initSucceeded, dirty, stateLock, mountedVolumes,
                   physMounted, priorMounted, rpc, snapshot, pc, impl, fname, refcnt,
                   hist>>
    /\ UNCHANGED mountIDtoName

\* The backings a response says were called.
Called(r) == IF r.via = "" THEN {} ELSE IF r.via = bothImpl THEN {vmdkImpl, nfsImpl} ELSE {r.via}

(***************************************************************************)
(* Recovery (RefCountsMap.Init), a background task.                        *)
(***************************************************************************)
\* A pass begins: the dirty flag is cleared under the lock, so that a
\* mutation during the pass shows.
RecoveryStart ==
    /\ rpc = "idle"
    /\ ~initSucceeded
    /\ stateLock = 0
    /\ dirty' = FALSE
    /\ rpc' = "reading"
    /\ UNCHANGED <<refCounts, initSucceeded, stateLock, mountedVolumes, physMounted,
                   priorMounted, snapshot, pc, req, impl, fname, refcnt, resp,
                   backendErr, nreqs, hist>>
    /\ UNCHANGED mountIDtoName

\* A recovery that gives up after a failed read.
RecoveryRead_NoRetry(ok) ==
    /\ rpc = "reading"
    /\ IF ok
       THEN /\ snapshot' = GetMountInfo(MountTable(physMounted), mountRoot)
            /\ rpc' = "writing"
       ELSE /\ snapshot' = {}
            /\ rpc' = "failed"
    /\ hist' = IF ok THEN hist ELSE PassEnded(hist)
    /\ UNCHANGED <<refCounts, initSucceeded, dirty, stateLock, mountedVolumes,
                   physMounted, priorMounted, pc, req, impl, fname, refcnt, resp,
                   backendErr, nreqs>>
    /\ UNCHANGED mountIDtoName

\* The mount table is read without the lock; a failed read ends the pass,
\* which is retried later.
RecoveryRead(ok) ==
    /\ rpc = "reading"
    /\ IF ok
       THEN /\ snapshot' = GetMountInfo(MountTable(physMounted), mountRoot)
            /\ rpc' = "writing"
       ELSE /\ snapshot' = {}
            /\ rpc' = "idle"
    /\ hist' = IF ok THEN hist ELSE PassEnded(hist)
    /\ UNCHANGED <<refCounts, initSucceeded, dirty, stateLock, mountedVolumes,
                   physMounted, priorMounted, pc, req, impl, fname, refcnt, resp,
                   backendErr, nreqs>>
    /\ UNCHANGED mountIDtoName

\* Under the lock: when no mutation happened during the pass, the seeded
\* counts are written and initSucceeded is set; else the flag stays dirty
\* and a corrective pass follows.
RecoveryWrite ==
    /\ rpc = "writing"
    /\ stateLock = 0
    /\ IF ~dirty
       THEN /\ refCounts' = SeedCounts(refCounts, snapshot)
            /\ initSucceeded' = TRUE
            /\ rpc' = "done"
            /\ hist' = PassEnded([hist EXCEPT !.base = SeedCounts(refCounts, snapshot),
                                              !.mAtRec = hist.nMount])
       ELSE /\ rpc' = "idle"
            /\ hist' = PassEnded(hist)
            /\ UNCHANGED <<refCounts, initSucceeded>>
    /\ snapshot' = {}
    /\ UNCHANGED <<dirty, stateLock, mountedVolumes, physMounted, priorMounted, pc,
                   req, impl, fname, refcnt, resp, backendErr, nreqs>>
    /\ UNCHANGED mountIDtoName

(***************************************************************************)
(* The revision of the driver that keeps mount ids: Mount records the      *)
(* name it resolved under the mount id of the request, Unmount looks the   *)
(* id up before it resolves the name.  It has no mounted-volume table;     *)
(* the backing is resolved from the datastore label alone.                 *)
(***************************************************************************)
\* getVolumeImpl: the network backing for a known datastore label, else the
\* block-device one.
getVolumeImpl(name) ==
    IF GetDSLabel(name) # "" /\ GetDSLabel(name) \in DOMAIN RemoteDirs
    THEN nfsImpl ELSE vmdkImpl

\* d.mountIDtoName[r.ID] = fname
RecordMountID(ids, id, name) == [ids EXCEPT ![id] = name]

\* delete(d.mountIDtoName, r.ID)
ForgetMountID(ids, id) == [ids EXCEPT ![id] = NoName]

\* The request arrives with its mount id; the backing is resolved before the
\* lock is taken.
MountIDBegin(t, name, id) ==
    /\ Accepts(t)
    /\ nreqs < MaxReqs
    /\ nreqs' = nreqs + 1
    /\ req' = [req EXCEPT ![t] = [op |-> "Mount", name |-> name, id |-> id]]
    /\ impl' = [impl EXCEPT ![t] = getVolumeImpl(name)]
    /\ resp' = [resp EXCEPT ![t] = NoResp]
    /\ backendErr' = [backendErr EXCEPT ![t] = ""]
    /\ pc' = [pc EXCEPT ![t] = "m_lock"]
    /\ UNCHANGED <<refCounts, initSucceeded, dirty, stateLock, mountedVolumes,
                   physMounted, priorMounted, rpc, snapshot, fname, refcnt,
                   mountIDtoName, hist>>

\* Lock, MarkDirty, resolve the full name, record it under the mount id,
\* increment, and either return (resolution error, already mounted) or call
\* the backend.
MountIDEnter(t, metaOK) ==
    /\ pc[t] = "m_lock"
    /\ LockStateLock(stateLock)
    /\ LET info == GetVolumeInfo(req[t].name, refCounts, metaOK)
           f == info.name
           inc == incrRefCount(refCounts, f)
       IN  IF info.err # ""
           THEN /\ dirty' = TRUE
                /\ resp' = [resp EXCEPT ![t] = Response(info.err, NoName, "noinfo", "")]
                /\ pc' = [pc EXCEPT ![t] = "idle"]
                /\ impl' = [impl EXCEPT ![t] = NoFS]
                /\ hist' = Marked(hist, rpc)
                /\ UNCHANGED <<refCounts, mountIDtoName, stateLock, fname, refcnt>>
           ELSE IF SkipMount(inc.refcnt, physMounted, f)
           THEN /\ dirty' = TRUE
                /\ mountIDtoName' = RecordMountID(mountIDtoName, req[t].id, f)
                /\ refCounts' = inc.counts
                /\ resp' = [resp EXCEPT ![t] = Response("", f, "skipped", impl[t])]
                /\ pc' = [pc EXCEPT ![t] = "idle"]
                /\ impl' = [impl EXCEPT ![t] = NoFS]
                /\ hist' = Marked(Bump(hist, "nMount", f), rpc)
                /\ UNCHANGED <<stateLock, fname, refcnt>>
           ELSE /\ dirty' = TRUE
                /\ mountIDtoName' = RecordMountID(mountIDtoName, req[t].id, f)
                /\ refCounts' = inc.counts
                /\ stateLock' = t
                /\ fname' = [fname EXCEPT ![t] = f]
                /\ refcnt' = [refcnt EXCEPT ![t] = inc.refcnt]
                /\ pc' = [pc EXCEPT ![t] = "m_backend"]
                /\ hist' = Marked(Bump(hist, "mountInv", f), rpc)
                /\ UNCHANGED <<resp, impl>>
    /\ UNCHANGED <<initSucceeded, mountedVolumes, physMounted, priorMounted, rpc,
                   snapshot, req, backendErr, nreqs>>

\* Mount, on a failed backend mount: d.decrRefCount(fname);
\* d.refCounts.ClearDirty()
MountIDRollback(counts, name) ==
    [counts |-> decrRefCount(counts, name).counts, dirty |-> FALSE]

\* The backend's physical mount returns; a failure is rolled back.
MountIDBackend(t, ok) ==
    /\ pc[t] = "m_backend"
    /\ LET f == fname[t]
           rb == MountIDRollback(refCounts, f)
       IN  IF ok
           THEN /\ physMounted' = physMounted \cup {f}
                /\ backendErr' = [backendErr EXCEPT ![t] = ""]
                /\ resp' = [resp EXCEPT ![t] = Response("", f, "mounted", impl[t])]
                /\ hist' = MountedBy(Bump(hist, "nMount", f), f, impl[t])
                /\ UNCHANGED <<refCounts, dirty>>
           ELSE /\ refCounts' = rb.counts
                /\ dirty' = rb.dirty
                /\ backendErr' = [backendErr EXCEPT ![t] = "ErrMount"]
                /\ resp' = [resp EXCEPT ![t] = Response("ErrMount", NoName, "mountfailed", impl[t])]
                /\ hist' = Bump(hist, "mountFail", f)
                /\ UNCHANGED physMounted
    /\ stateLock' = UnlockStateLock(stateLock)
    /\ pc' = [pc EXCEPT ![t] = "idle"]
    /\ impl' = [impl EXCEPT ![t] = NoFS]
    /\ fname' = [fname EXCEPT ![t] = NoName]
    /\ refcnt' = [refcnt EXCEPT ![t] = 0]
    /\ UNCHANGED <<initSucceeded, mountedVolumes, priorMounted, rpc, snapshot, req,
                   nreqs, mountIDtoName>>

\* The request arrives with its mount id; the backing is resolved before the
\* lock is taken.
UnmountIDBegin(t, name, id) ==
    /\ Accepts(t)
    /\ nreqs < MaxReqs
    /\ nreqs' = nreqs + 1
    /\ req' = [req EXCEPT ![t] = [op |-> "Unmount", name |-> name, id |-> id]]
    /\ impl' = [impl EXCEPT ![t] = getVolumeImpl(name)]
    /\ resp' = [resp EXCEPT ![t] = NoResp]
    /\ backendErr' = [backendErr EXCEPT ![t] = ""]
    /\ pc' = [pc EXCEPT ![t] = "u_lock"]
    /\ UNCHANGED <<refCounts, initSucceeded, dirty, stateLock, mountedVolumes,
                   physMounted, priorMounted, rpc, snapshot, fname, refcnt,
                   mountIDtoName, hist>>

\* An Unmount that resolves the name again whatever the mount id.
UnmountIDName_Rederive(ids, id, name, counts, metaOK) ==
    [name |-> GetVolumeInfo(name, counts, metaOK).name,
     err |-> GetVolumeInfo(name, counts, metaOK).err,
     ids |-> ForgetMountID(ids, id)]

\* Unmount, "fname, exist := d.mountIDtoName[r.ID]; if exist { delete } else
\* { GetVolumeInfo }": the name recorded under the mount id, which is then
\* forgotten, else the name the resolver gives.
UnmountIDName(ids, id, name, counts, metaOK) ==
    IF ids[id] # NoName
    THEN [name |-> ids[id], err |-> "", ids |-> ForgetMountID(ids, id)]
    ELSE [name |-> GetVolumeInfo(name, counts, metaOK).name,
          err |-> GetVolumeInfo(name, counts, metaOK).err,
          ids |-> ids]

\* Lock; while recovery has not succeeded MarkDirty and return; else find
\* the full name, decrement, and either return (resolution error, still in
\* use) or call the backend.
UnmountIDEnter(t, metaOK) ==
    /\ pc[t] = "u_lock"
    /\ LockStateLock(stateLock)
    /\ LET un == UnmountIDName(mountIDtoName, req[t].id, req[t].name, refCounts, metaOK)
           f == un.name
           dec == decrRefCount(refCounts, f)
       IN  IF DeferUnmount(initSucceeded)
           THEN /\ dirty' = TRUE
                /\ resp' = [resp EXCEPT ![t] = Response("", NoName, "deferred", "")]
                /\ pc' = [pc EXCEPT ![t] = "idle"]
                /\ impl' = [impl EXCEPT ![t] = NoFS]
                /\ hist' = Marked(Bump(hist, "nUnmount",
                                        AccountName(req[t].name, refCounts)), rpc)
                /\ UNCHANGED <<refCounts, mountIDtoName, stateLock, fname, refcnt>>
           ELSE IF un.err # ""
           THEN /\ resp' = [resp EXCEPT ![t] = Response(un.err, NoName, "noinfo", "")]
                /\ pc' = [pc EXCEPT ![t] = "idle"]
                /\ impl' = [impl EXCEPT ![t] = NoFS]
                /\ UNCHANGED <<refCounts, mountIDtoName, dirty, stateLock, fname,
                               refcnt, hist>>
           ELSE IF StillInUse(dec.refcnt)
           THEN /\ refCounts' = dec.counts
                /\ mountIDtoName' = un.ids
                /\ resp' = [resp EXCEPT ![t] = Response("", NoName, "inuse", "")]
                /\ pc' = [pc EXCEPT ![t] = "idle"]
                /\ impl' = [impl EXCEPT ![t] = NoFS]
                /\ hist' = Bump(Bump(hist, "nUnmount", f), "nDecr", f)
                /\ UNCHANGED <<dirty, stateLock, fname, refcnt>>
           ELSE /\ refCounts' = dec.counts
                /\ mountIDtoName' = un.ids
                /\ stateLock' = t
                /\ fname' = [fname EXCEPT ![t] = f]
                /\ refcnt' = [refcnt EXCEPT ![t] = dec.refcnt]
                /\ pc' = [pc EXCEPT ![t] = "u_backend"]
                /\ hist' = LET h1 == Bump(Bump(hist, "nUnmount", f), "nDecr", f)
                               h2 == Bump(h1, "umountInv", f)
                           IN  IF dec.err # "" THEN Bump(h2, "nUnder", f) ELSE h2
                /\ UNCHANGED <<dirty, resp, impl>>
    /\ UNCHANGED <<initSucceeded, mountedVolumes, physMounted, priorMounted, rpc,
                   snapshot, req, backendErr, nreqs>>

(***************************************************************************)
(* Specification.                                                          *)
(***************************************************************************)
Next ==
    \/ \E t \in Threads, name \in ReqNames : MountBegin(t, name)
    \/ \E t \in Threads, metaOK \in BOOLEAN : MountEnter(t, metaOK)
    \/ \E t \in Threads, ok \in BOOLEAN : MountBackend(t, ok)
    \/ \E t \in Threads, name \in ReqNames : UnmountBegin(t, name)
    \/ \E t \in Threads, metaOK \in BOOLEAN : UnmountEnter(t, metaOK)
    \/ \E t \in Threads, ok \in BOOLEAN : UnmountBackend(t, ok)
    \/ \E t \in Threads, name \in ReqNames : RemoveCheck(t, name)
    \/ \E t \in Threads, ok \in BOOLEAN : RemoveCall(t, ok)
    \/ \E t \in Threads, name \in ReqNames, ftype \in TypeOpts, ok \in BOOLEAN :
          Create(t, name, ftype, ok)
    \/ \E t \in Threads, name \in ReqNames, ok \in BOOLEAN : Get(t, name, ok)
    \/ \E t \in Threads, name \in ReqNames : Path(t, name)
    \/ \E t \in Threads, blkOK \in BOOLEAN, filOK \in BOOLEAN,
          volumes \in VolumesValues(BlkVolumes) : List(t, blkOK, filOK, volumes)
    \/ RecoveryStart
    \/ \E ok \in BOOLEAN : RecoveryRead(ok)
    \/ RecoveryWrite

Spec == Init /\ [][Next]_vars

\* Scheduling: a handler that can take its next step takes it (the lock is
\* granted, a backend call returns); the recovery task keeps running in the
\* background, and its read of the mount table, tried again and again,
\* succeeds in the end.
Fairness ==
    /\ WF_vars(\E t \in Threads, metaOK \in BOOLEAN : MountEnter(t, metaOK))
    /\ WF_vars(\E t \in Threads, ok \in BOOLEAN : MountBackend(t, ok))
    /\ WF_vars(\E t \in Threads, metaOK \in BOOLEAN : UnmountEnter(t, metaOK))
    /\ WF_vars(\E t \in Threads, ok \in BOOLEAN : UnmountBackend(t, ok))
    /\ WF_vars(\E t \in Threads, ok \in BOOLEAN : RemoveCall(t, ok))
    /\ WF_vars(RecoveryStart)
    /\ SF_vars(RecoveryRead(TRUE))
    /\ WF_vars(RecoveryWrite)

FairSpec == Spec /\ Fairness

\* The revision that keeps mount ids: its Mount and Unmount (whose backend
\* call and return are those of the other revision), and the recovery task.
MountIDNext ==
    \/ \E t \in Threads, name \in ReqNames, id \in MountIDs : MountIDBegin(t, name, id)
    \/ \E t \in Threads, metaOK \in BOOLEAN : MountIDEnter(t, metaOK)
    \/ \E t \in Threads, ok \in BOOLEAN : MountIDBackend(t, ok)
    \/ \E t \in Threads, name \in ReqNames, id \in MountIDs : UnmountIDBegin(t, name, id)
    \/ \E t \in Threads, metaOK \in BOOLEAN : UnmountIDEnter(t, metaOK)
    \/ \E t \in Threads, ok \in BOOLEAN : UnmountBackend(t, ok)
    \/ RecoveryStart
    \/ \E ok \in BOOLEAN : RecoveryRead(ok)
    \/ RecoveryWrite

MountIDSpec == Init /\ [][MountIDNext]_vars

(***************************************************************************)
(* MountVolume and UnmountVolume, the mounts and unmounts without          *)
(* reference counting that the refcounter's recovery asks the driver for.  *)
(***************************************************************************)
\* MountVolume writes "d.mountedVolumes[fname]", and fname is no name of the
\* function (its parameter is "name"): the key is either the name of the
\* volume or the empty name.
FnameValues(name) == {name, NoName}

\* d.mountedVolumes[fname].fsType = fs; an entry under the empty name is
\* the entry of no volume.
MountVolumeTable(table, key, fs) ==
    IF key \in DOMAIN table THEN TrackVolume(table, key, fs) ELSE table

\* A helper call is noted.
HelperCalled(h, op, name, b, err) ==
    [h EXCEPT !.nHelper = @ + 1,
              !.helper = [op |-> op, name |-> name, via |-> b, err |-> err]]

\* MountVolume(name, ...): the backing is resolved, the table written, and
\* the backend's mount called; its result is returned.  Helper calls count
\* as requests made.
MountVolume(name, key, ok) ==
    /\ nreqs < MaxReqs
    /\ nreqs' = nreqs + 1
    /\ LET b == getVolImplWithFSType(mountedVolumes, name)
       IN  /\ mountedVolumes' = MountVolumeTable(mountedVolumes, key, b)
           /\ physMounted' = IF ok THEN physMounted \cup {name} ELSE physMounted
           /\ hist' = LET h == HelperCalled(hist, "MountVolume", name, b,
                                            IF ok THEN "" ELSE "ErrMount")
                      IN  IF ok THEN MountedBy(h, name, b) ELSE h
    /\ UNCHANGED <<refCounts, initSucceeded, dirty, stateLock, priorMounted, rpc,
                   snapshot, pc, req, impl, fname, refcnt, resp, backendErr,
                   mountIDtoName>>

\* UnmountVolume(fname): the backing is resolved, the entry of the volume
\* deleted if there is one, and the backend's unmount called; its result is
\* returned.
UnmountVolume(name, ok) ==
    /\ nreqs < MaxReqs
    /\ nreqs' = nreqs + 1
    /\ LET b == getVolImplWithFSType(mountedVolumes, name)
       IN  /\ mountedVolumes' = IF mountedVolumes[name] # NoFS
                                THEN UntrackVolume(mountedVolumes, name)
                                ELSE mountedVolumes
           /\ physMounted' = IF ok THEN physMounted \ {name} ELSE physMounted
           /\ hist' = LET h == HelperCalled(hist, "UnmountVolume", name, b,
                                            IF ok THEN "" ELSE "ErrUnmount")
                      IN  IF ok THEN MountedBy(h, name, NoFS) ELSE h
    /\ UNCHANGED <<refCounts, initSucceeded, dirty, stateLock, priorMounted, rpc,
                   snapshot, pc, req, impl, fname, refcnt, resp, backendErr,
                   mountIDtoName>>

\* The driver with its helpers: Mount, Unmount, the recovery task, and the
\* helper calls.
HelperNext ==
    \/ \E t \in Threads, name \in ReqNames : MountBegin(t, name)
    \/ \E t \in Threads, metaOK \in BOOLEAN : MountEnter(t, metaOK)
    \/ \E t \in Threads, ok \in BOOLEAN : MountBackend(t, ok)
    \/ \E t \in Threads, name \in ReqNames : UnmountBegin(t, name)
    \/ \E t \in Threads, metaOK \in BOOLEAN : UnmountEnter(t, metaOK)
    \/ \E t \in Threads, ok \in BOOLEAN : UnmountBackend(t, ok)
    \/ RecoveryStart
    \/ \E ok \in BOOLEAN : RecoveryRead(ok)
    \/ RecoveryWrite
    \/ \E name \in FullNames, ok \in BOOLEAN :
          \E key \in FnameValues(name) : MountVolume(name, key, ok)
    \/ \E name \in FullNames, ok \in BOOLEAN : UnmountVolume(name, ok)

HelperSpec == Init /\ [][HelperNext]_vars

(***************************************************************************)
(* The name resolver on its own: a call with a name, a datastore name, a   *)
(* reference map and a backend whose metadata lookup works or fails.       *)
(***************************************************************************)
\* The datastore names a caller supplies: none, or a label.
DatastoreArgs == {""} \cup DSLabels

\* The reference map that holds one reference for each name of refmap.
CountsOf(refmap) == [n \in AllNames |-> IF n \in refmap THEN 1 ELSE 0]

\* The call: thread 1 is about to run GetFullNameAndMeta and thread 2
\* GetFullVolumeName, on the same arguments.
QualifyInit ==
    /\ \E refmap \in SUBSET FullNames : refCounts = CountsOf(refmap)
    /\ \E name \in AllNames, datastoreName \in DatastoreArgs, metaOK \in BOOLEAN :
          req = [t \in Threads |->
                    IF t \in {1, 2}
                    THEN [op |-> "Qualify", name |-> name,
                          datastoreName |-> datastoreName, metaOK |-> metaOK]
                    ELSE NoReq]
    /\ pc = [t \in Threads |-> IF t \in {1, 2} THEN "q_call" ELSE "idle"]
    /\ initSucceeded = TRUE
    /\ dirty = FALSE
    /\ stateLock = 0
    /\ mountedVolumes = [n \in AllNames |-> NoFS]
    /\ priorMounted = {}
    /\ physMounted = {}
    /\ rpc = "done"
    /\ snapshot = {}
    /\ impl = [t \in Threads |-> NoFS]
    /\ fname = [t \in Threads |-> NoName]
    /\ refcnt = [t \in Threads |-> 0]
    /\ resp = [t \in Threads |-> NoResp]
    /\ backendErr = [t \in Threads |-> ""]
    /\ nreqs = 0
    /\ mountIDtoName = [i \in MountIDs |-> NoName]
    /\ hist = HistInit

\* What a resolver returns, as a response: the name, or the error.
Qualified(r) ==
    Response(r.err, r.name, IF r.err = "" THEN "qualified" ELSE "noname", "")

\* GetFullNameAndMeta returns.
QualifyCall ==
    /\ pc[1] = "q_call"
    /\ resp' = [resp EXCEPT ![1] =
                    Qualified(GetFullNameAndMeta(req[1].name, req[1].datastoreName,
                                                 refCounts, req[1].metaOK))]
    /\ pc' = [pc EXCEPT ![1] = "q_done"]
    /\ UNCHANGED <<refCounts, initSucceeded, dirty, stateLock, mountedVolumes,
                   physMounted, priorMounted, rpc, snapshot, req, impl, fname, refcnt,
                   backendErr, nreqs, mountIDtoName, hist>>

\* The name GetFullNameAndMeta returned is resolved once more, with no
\* datastore name; the first result is kept in fname.
QualifyAgain ==
    /\ pc[1] = "q_done"
    /\ resp[1].err = ""
    /\ fname' = [fname EXCEPT ![1] = resp[1].mp]
    /\ resp' = [resp EXCEPT ![1] =
                    Qualified(GetFullNameAndMeta(resp[1].mp, "", refCounts,
                                                 req[1].metaOK))]
    /\ pc' = [pc EXCEPT ![1] = "q_again"]
    /\ UNCHANGED <<refCounts, initSucceeded, dirty, stateLock, mountedVolumes,
                   physMounted, priorMounted, rpc, snapshot, req, impl, refcnt,
                   backendErr, nreqs, mountIDtoName, hist>>

\* GetFullVolumeName returns.
QualifyOld ==
    /\ pc[2] = "q_call"
    /\ resp' = [resp EXCEPT ![2] =
                    Qualified(GetFullVolumeName(req[2].name, req[2].datastoreName,
                                                req[2].metaOK))]
    /\ pc' = [pc EXCEPT ![2] = "q_done"]
    /\ UNCHANGED <<refCounts, initSucceeded, dirty, stateLock, mountedVolumes,
                   physMounted, priorMounted, rpc, snapshot, req, impl, fname, refcnt,
                   backendErr, nreqs, mountIDtoName, hist>>

QualifyNext == QualifyCall \/ QualifyAgain \/ QualifyOld

QualifySpec == QualifyInit /\ [][QualifyNext]_vars

TypeOK ==
    /\ refCounts \in [AllNames -> Nat]
    /\ initSucceeded \in BOOLEAN
    /\ dirty \in BOOLEAN
    /\ stateLock \in 0..NumThreads
    /\ mountedVolumes \in [AllNames -> {NoFS, vmdkImpl, nfsImpl}]
    /\ physMounted \subseteq FullNames
    /\ pc \in [Threads -> {"idle", "m_lock", "m_backend", "u_lock", "u_backend", "r_call"}]

(***************************************************************************)
(* Properties.                                                             *)
(***************************************************************************)
Quiescent == \A t \in Threads : pc[t] = "idle"

\* No Unmount request has touched the volume f, and none is in progress.
OnlyMounts(f) ==
    /\ hist.nUnmount[f] = 0
    /\ \A t \in Threads : pc[t] \notin {"u_lock", "u_backend"}

\* C1 as stated: across Mount calls alone, the backend's physical mount of a
\* volume is invoked at most once, and exactly once when a Mount succeeded
\* and the volume was not mounted before.
C1_Original ==
    \A f \in FullNames :
        OnlyMounts(f) =>
            /\ hist.mountInv[f] <= 1
            /\ (hist.nMount[f] >= 1 /\ f \notin priorMounted) => hist.mountInv[f] = 1

\* C1 as amended: the backend's physical mount is never invoked for a volume
\* that is physically mounted; across Mount calls alone every invocation but
\* one is a failed, rolled-back one (so at most one succeeds, none when the
\* volume was mounted before), and once a Mount has returned success the
\* volume is physically mounted.
C1_AtMostOneMount ==
    \A f \in FullNames :
        /\ \A t \in Threads :
              (pc[t] = "m_backend" /\ fname[t] = f) => f \notin physMounted
        /\ OnlyMounts(f) =>
              /\ hist.mountInv[f] <= hist.mountFail[f] + 1
              /\ f \in priorMounted => hist.mountInv[f] = 0
              /\ hist.nMount[f] >= 1 =>
                    /\ f \in physMounted
                    /\ f \notin priorMounted => hist.mountInv[f] = hist.mountFail[f] + 1

\* Two concurrent Mounts of one volume that was not mounted: the first
\* mounted it, the second skipped the mount and returned the same mount point.
C1_Witness ==
    \E f \in FullNames :
        /\ f \notin priorMounted
        /\ OnlyMounts(f)
        /\ resp[1].how = "mounted" /\ resp[1].mp = f
        /\ resp[2].how = "skipped" /\ resp[2].mp = f
        /\ hist.mountInv[f] = 1

\* Successful Mounts and decrementing Unmounts of f since recovery completed.
MountsSince(f) == hist.nMount[f] - hist.mAtRec[f]
UnmountsSince(f) == hist.nDecr[f]

\* The step is thread t leaving the lock wait of Unmount.
UnmountEnters(t) == pc[t] = "u_lock" /\ pc'[t] # "u_lock"

\* C2 as stated: with recovery completed, after M Mounts and M Unmounts of a
\* volume the count is the count before them and the physical unmount has
\* been invoked exactly once.
C2_Original ==
    \A f \in FullNames :
        (initSucceeded /\ Quiescent /\ MountsSince(f) >= 1
            /\ MountsSince(f) = UnmountsSince(f)) =>
            /\ refCounts[f] = hist.base[f]
            /\ hist.umountInv[f] = 1

\* C2 as amended, the count: with recovery completed and no call inside its
\* critical section, the count of a volume none of whose Unmounts found the
\* count at zero is the count recovery left plus the successful Mounts minus
\* the Unmounts since; with as many Unmounts as Mounts it is the count
\* before them.
C2_CountBalance ==
    \A f \in FullNames :
        (initSucceeded /\ stateLock = 0 /\ hist.nUnder[f] = 0) =>
            /\ refCounts[f] + UnmountsSince(f) = hist.base[f] + MountsSince(f)
            /\ MountsSince(f) = UnmountsSince(f) => refCounts[f] = hist.base[f]

\* C2 as amended, the physical unmount: it is invoked only by an Unmount
\* that leaves the count at zero, once by that Unmount, and every Unmount
\* that takes the count from one to zero invokes it.
C2_UnmountOnZero ==
    \A f \in FullNames :
        /\ hist'.umountInv[f] # hist.umountInv[f] =>
              /\ hist'.umountInv[f] = hist.umountInv[f] + 1
              /\ refCounts[f] <= 1 /\ refCounts'[f] = 0
              /\ \E t \in Threads : UnmountEnters(t) /\ fname'[t] = f
        /\ \A t \in Threads :
              (UnmountEnters(t) /\ refCounts[f] = 1 /\ refCounts'[f] = 0) =>
                  hist'.umountInv[f] = hist.umountInv[f] + 1

\* C2 as amended: with recovery completed, Mounts and Unmounts of a volume
\* in equal number leave its count where it was, and the physical unmount is
\* invoked exactly by the Unmounts that leave the count at zero.
C2_RefSymmetry == [](C2_CountBalance) /\ [][C2_UnmountOnZero]_vars

\* With recovery completed: a Mount and an Unmount of a volume, the count
\* back at the count before them, one physical unmount.
C2_Witness ==
    \E f \in FullNames :
        /\ initSucceeded /\ Quiescent
        /\ hist.nUnder[f] = 0
        /\ MountsSince(f) = 1 /\ UnmountsSince(f) = 1
        /\ refCounts[f] = hist.base[f]
        /\ hist.umountInv[f] = 1

\* The step is thread t receiving a Remove request.
RemoveArrives(t) == Accepts(t) /\ nreqs' # nreqs /\ req'[t].op = "Remove"

\* C3: while initSucceeded is false an Unmount returns success, decrements
\* nothing, invokes no physical unmount and leaves the counts and the
\* mounted-volume table as they were; it sets the dirty flag and nothing else
\* of the shared state.
C3_DeferredUnmount ==
    [][\A t \in Threads :
        (UnmountEnters(t) /\ ~initSucceeded) =>
            /\ resp'[t].err = "" /\ pc'[t] = "idle"
            /\ refCounts' = refCounts
            /\ mountedVolumes' = mountedVolumes
            /\ physMounted' = physMounted
            /\ hist'.nDecr = hist.nDecr /\ hist'.umountInv = hist.umountInv
            /\ dirty' = TRUE
            /\ initSucceeded' = initSucceeded /\ stateLock' = 0]_vars

\* An Unmount of a mounted, counted, tracked volume was deferred.
C3_Witness ==
    \E t \in Threads, f \in FullNames :
        /\ ~initSucceeded /\ dirty
        /\ req[t].op = "Unmount" /\ req[t].name = f /\ resp[t].how = "deferred"
        /\ refCounts[f] > 0 /\ mountedVolumes[f] # NoFS /\ f \in physMounted

C5_RemoveGuard ==
    [][\A t \in Threads :
        /\ RemoveArrives(t) =>
              /\ getRefCount(refCounts, req'[t].name) > 0 =>
                    /\ pc'[t] = "idle"
                    /\ resp'[t].err = "ErrStillMounted" /\ resp'[t].via = ""
              /\ getRefCount(refCounts, req'[t].name) = 0 => pc'[t] = "r_call"
        /\ (pc[t] = "r_call" /\ pc'[t] # "r_call") =>
              /\ resp'[t].via = getVolImplWithFSType(mountedVolumes, req[t].name)
              /\ resp'[t].via \in {vmdkImpl, nfsImpl}
              /\ resp'[t].err = backendErr'[t]
        /\ (resp'[t].via # resp[t].via /\ resp'[t].how \in {"removed", "removefailed"}) =>
              pc[t] = "r_call"]_vars

\* A Remove of a mounted volume was refused, no backend called.
C5_Witness ==
    \E t \in Threads :
        /\ req[t].op = "Remove" /\ resp[t].how = "refused" /\ pc[t] = "idle"
        /\ resp[t].err = "ErrStillMounted" /\ resp[t].via = ""
        /\ refCounts[req[t].name] > 0

\* The users of f: its successful Mounts and the user inherited from the
\* previous process instance, less its Unmounts.
Inherited(f) == IF f \in priorMounted THEN 1 ELSE 0
Users(f) == hist.nMount[f] + Inherited(f) - hist.nUnmount[f]

\* C6: the backend's physical unmount of a volume is never invoked while a
\* successful Mount of it, or the user inherited from the previous process
\* instance, is not yet matched by an Unmount.
C6_OnlyLastUser ==
    \A t \in Threads : pc[t] = "u_backend" => Users(fname[t]) <= 0

\* C7: with recovery succeeded, an Unmount whose decrement leaves the count
\* of the volume at one or more returns success and invokes no physical
\* unmount of any volume.
C7_SharedUnmount ==
    [][\A t \in Threads :
        (UnmountEnters(t) /\ initSucceeded
            /\ \E f \in FullNames : refCounts'[f] = refCounts[f] - 1 /\ refCounts'[f] >= 1) =>
            /\ pc'[t] = "idle" /\ resp'[t].err = ""
            /\ hist'.umountInv = hist.umountInv
            /\ physMounted' = physMounted
            /\ stateLock' = 0]_vars

\* Two Mounts outstanding, the first Unmount took the count from 2 to 1 and
\* the volume stays mounted.
C7_Witness ==
    \E t \in Threads, f \in FullNames :
        /\ initSucceeded /\ pc[t] = "idle"
        /\ req[t].op = "Unmount" /\ resp[t].how = "inuse" /\ resp[t].err = ""
        /\ hist.nDecr[f] = 1 /\ refCounts[f] = 1
        /\ hist.umountInv[f] = 0 /\ f \in physMounted

\* C8: with recovery succeeded, an Unmount whose decrement takes the count
\* of a volume from one to zero invokes the backend's physical unmount once,
\* for the fully qualified name of that volume and for no other, and its
\* response is the result of that backend call.
C8_LastUnmount ==
    [][\A t \in Threads :
        /\ \A f \in AllNames :
              (UnmountEnters(t) /\ initSucceeded
                  /\ refCounts[f] = 1 /\ refCounts'[f] = 0) =>
                  /\ IsFullVolumeName(f)
                  /\ pc'[t] = "u_backend" /\ fname'[t] = f /\ stateLock' = t
                  /\ hist'.umountInv = [hist.umountInv EXCEPT ![f] = @ + 1]
        /\ (pc[t] = "u_backend" /\ pc'[t] # "u_backend") =>
              /\ pc'[t] = "idle"
              /\ resp'[t].err = backendErr'[t]
              /\ hist'.umountInv = hist.umountInv
              /\ backendErr'[t] = "" => fname[t] \notin physMounted']_vars

\* The last Unmount of a volume called the backend once and answered with
\* the backend's error.
C8_Witness ==
    \E t \in Threads, f \in FullNames :
        /\ initSucceeded /\ pc[t] = "idle"
        /\ req[t].op = "Unmount" /\ resp[t].how = "umountfailed"
        /\ resp[t].err = "ErrUnmount"
        /\ hist.umountInv[f] = 1 /\ hist.nUnder[f] = 0
        /\ refCounts[f] = 0 /\ f \in physMounted

CountsNonNegative == \A n \in AllNames : refCounts[n] \in Nat

\* An Unmount that decrements a count that is zero has Underflow reported
\* and leaves every count as it was; one that decrements a positive count
\* has no error reported and takes one off that count alone.
DecrAtZero ==
    \A t \in Threads :
        (UnmountEnters(t) /\ hist'.nDecr # hist.nDecr) =>
            \E f \in FullNames :
                /\ hist'.nDecr = [hist.nDecr EXCEPT ![f] = @ + 1]
                /\ refCounts[f] = 0 =>
                      /\ refCounts' = refCounts
                      /\ hist'.nUnder = [hist.nUnder EXCEPT ![f] = @ + 1]
                /\ refCounts[f] > 0 =>
                      /\ refCounts' = [refCounts EXCEPT ![f] = @ - 1]
                      /\ hist'.nUnder = hist.nUnder

InBackend == {t \in Threads : pc[t] \in {"m_backend", "u_backend"}}

\* C11: when the decrement of an Unmount reports Underflow (the count was
\* zero), the Unmount does not return there: it invokes the backend's
\* physical unmount of the volume, and its response is the result of that
\* call.
C11_UnderflowNonFatal ==
    [][\A t \in Threads :
        /\ \A f \in FullNames :
              (UnmountEnters(t) /\ initSucceeded /\ refCounts[f] = 0
                  /\ hist'.nDecr[f] # hist.nDecr[f]) =>
                  /\ hist'.nUnder[f] = hist.nUnder[f] + 1
                  /\ pc'[t] = "u_backend" /\ fname'[t] = f
                  /\ hist'.umountInv[f] = hist.umountInv[f] + 1
                  /\ resp'[t] = resp[t]
        /\ (pc[t] = "u_backend" /\ pc'[t] # "u_backend"
                /\ hist.nUnder[fname[t]] > 0) =>
              /\ resp'[t].err = backendErr'[t]
              /\ resp'[t].how \in {"unmounted", "umountfailed"}]_vars

\* An Unmount of a volume that was never mounted underflowed, called the
\* backend and returned its success.
C11_Witness ==
    \E t \in Threads, f \in FullNames :
        /\ pc[t] = "idle" /\ req[t].op = "Unmount" /\ resp[t].how = "unmounted"
        /\ resp[t].err = ""
        /\ hist.nUnder[f] = 1 /\ hist.nDecr[f] = 1 /\ hist.umountInv[f] = 1
        /\ hist.nMount[f] = 0 /\ refCounts[f] = 0

\* No count changes while a backend call is in progress, other than by the
\* rollback of the call itself.
NoMutationDuringBackend ==
    \A t \in InBackend :
        refCounts' # refCounts =>
            /\ pc[t] = "m_backend" /\ pc'[t] = "idle"
            /\ backendErr'[t] # ""

\* C12: at most one Mount or Unmount is inside its critical section: no two
\* backend physical mounts or unmounts are in progress together, the one in
\* progress holds the lock, and no other Mount or Unmount changes a count
\* meanwhile.
C12_MutualExclusion ==
    /\ [](/\ Cardinality(InBackend) <= 1
          /\ \A t \in InBackend : stateLock = t)
    /\ [][NoMutationDuringBackend /\ (InBackend # {} => InBackend' \subseteq InBackend)]_vars

\* A backend mount is in progress while another Mount of the same volume
\* waits for the lock.
C12_Witness ==
    /\ pc[1] = "m_backend" /\ pc[2] = "m_lock"
    /\ req[2].name = fname[1] /\ stateLock = 1
    /\ refCounts[fname[1]] = 1

Arrives(t, o) == Accepts(t) /\ nreqs' # nreqs /\ req'[t].op = o

\* The step is the Remove of thread t calling its backend.
RemoveCalls(t) == pc[t] = "r_call" /\ pc'[t] # "r_call"

\* The backing the label rule gives a name: the one configured for the text
\* after '@', the block-device one when there is no such text or none is
\* configured for it.
LabelImpl(name) ==
    IF name.ds \in DOMAIN RemoteDirs THEN RemoteDirs[name.ds] ELSE vmdkImpl

\* C14: every operation that resolves a backend for a name that is in the
\* mounted-volume table (Create, Get, Path, Remove, Mount, Unmount) uses the
\* backend kind the table records, whatever a type option or the label says.
C14_TrackedWins ==
    [][\A t \in Threads :
        /\ \A o \in {"Create", "Get", "Path"} :
              (Arrives(t, o) /\ mountedVolumes[req'[t].name] # NoFS) =>
                  resp'[t].via = mountedVolumes[req'[t].name]
        /\ \A o \in {"Mount", "Unmount"} :
              (Arrives(t, o) /\ mountedVolumes[req'[t].name] # NoFS) =>
                  impl'[t] = mountedVolumes[req'[t].name]
        /\ (RemoveCalls(t) /\ mountedVolumes[req[t].name] # NoFS) =>
              resp'[t].via = mountedVolumes[req[t].name]]_vars

C16_LabelDispatch ==
    [][\A t \in Threads :
        /\ (Arrives(t, "Create") /\ req'[t].opt = ""
                /\ mountedVolumes[req'[t].name] = NoFS) =>
              resp'[t].via = LabelImpl(req'[t].name)
        /\ \A o \in {"Get", "Path"} :
              (Arrives(t, o) /\ mountedVolumes[req'[t].name] = NoFS) =>
                  resp'[t].via = LabelImpl(req'[t].name)
        /\ \A o \in {"Mount", "Unmount"} :
              (Arrives(t, o) /\ mountedVolumes[req'[t].name] = NoFS) =>
                  impl'[t] = LabelImpl(req'[t].name)
        /\ (RemoveCalls(t) /\ mountedVolumes[req[t].name] = NoFS) =>
              resp'[t].via = LabelImpl(req[t].name)]_vars

\* An untracked name labelled nfs1 went to the network backend while the
\* bare name went to the block-device backend.
C16_Witness ==
    /\ req[2].op = "Get" /\ req[2].name = Name("data1", "nfs1")
    /\ resp[2].via = nfsImpl
    /\ req[1].op = "Path" /\ req[1].name = Name("data1", "")
    /\ resp[1].via = vmdkImpl
    /\ \A n \in AllNames : mountedVolumes[n] = NoFS

\* C17: for data1@nfs1, whose label is configured for the network backend,
\* Create (without a type option), Mount and List call the network backend
\* and never the block-device backend.
C17_NfsOnly ==
    \A t \in Threads :
        /\ (pc[t] = "idle" /\ req[t].op = "Mount"
                /\ req[t].name = Name("data1", "nfs1")) =>
              vmdkImpl \notin Called(resp[t])
        /\ (req[t].op = "Create" /\ req[t].name = Name("data1", "nfs1")
                /\ req[t].opt = "") =>
              vmdkImpl \notin Called(resp[t])
        /\ req[t].op = "List" => vmdkImpl \notin Called(resp[t])

Ambiguous(name, counts) ==
    /\ ~IsFullVolumeName(name)
    /\ Cardinality({n \in VolumesInRefMap(counts) : n.vol = name.vol}) > 1

\* C18: a Mount of a bare name that matches more than one fully qualified
\* name fails: it returns an error, increments no count and calls no
\* backend mount.
C18_AmbiguousFails ==
    [][\A t \in Threads :
        (pc[t] = "m_lock" /\ pc'[t] # "m_lock"
            /\ Ambiguous(req[t].name, refCounts)) =>
            /\ pc'[t] = "idle" /\ resp'[t].err # ""
            /\ refCounts' = refCounts
            /\ hist'.mountInv = hist.mountInv]_vars

\* A failed read of the mount table leaves initSucceeded false and the
\* counts alone, and the task where it starts a pass again.
ReadFailureRetries ==
    (rpc = "reading" /\ rpc' # "writing" /\ rpc' # rpc) =>
        /\ rpc' = "idle"
        /\ ~initSucceeded /\ ~initSucceeded'
        /\ refCounts' = refCounts

\* An Unmount is deferred exactly while initSucceeded is false.
DeferredUntilInit ==
    \A t \in Threads :
        UnmountEnters(t) => (resp'[t].how = "deferred" <=> ~initSucceeded)

PassCompletes == rpc = "writing" /\ rpc' # "writing"

\* C21: when a recovery pass completes, initSucceeded is set and the dirty
\* flag is clear only if MarkDirty was not called by a Mount or Unmount
\* while the pass was running; if it was called, the dirty flag is still
\* set after the pass and initSucceeded is not set by it.
C21_DirtyGatesInit ==
    [][PassCompletes =>
        /\ ~hist.marked => (initSucceeded' /\ ~dirty')
        /\ hist.marked => (dirty' /\ ~initSucceeded')]_vars

\* C22: whatever the interleaving of a Remove with Mounts, the Remove of the
\* backend is never called for a name whose reference count is not zero at
\* the moment of the call.
C22_RemoveRace ==
    [][\A t \in Threads :
        RemoveCalls(t) => getRefCount(refCounts, req[t].name) = 0]_vars

\* C23: a List whose backends both answer returns the volumes of the
\* block-device backend followed by those of the network backend, and a List
\* one of whose backends fails returns the error of that backend and no
\* volumes.
C23_ListConcat ==
    \A t \in Threads :
        req[t].op = "List" =>
            /\ backendErr[t] = "" =>
                  /\ resp[t].err = ""
                  /\ resp[t].vols = BlkVolumes \o FilVolumes
            /\ backendErr[t] # "" =>
                  /\ resp[t].err = backendErr[t]
                  /\ resp[t].vols = <<>>

\* The step is thread t leaving the lock wait of Mount.
MountEnters(t) == pc[t] = "m_lock" /\ pc'[t] # "m_lock"

\* A Mount whose increment gives more than one, or whose volume the backend
\* reports mounted, skips the physical mount, keeps the incremented count
\* and returns success with the mount point of the volume.
SkipsWhenMounted ==
    \A t \in Threads, f \in FullNames :
        (MountEnters(t) /\ refCounts'[f] = refCounts[f] + 1
            /\ (refCounts'[f] > 1 \/ IsMounted(physMounted, f))) =>
            /\ pc'[t] = "idle" /\ stateLock' = 0
            /\ resp'[t].err = "" /\ resp'[t].mp = f
            /\ hist'.mountInv = hist.mountInv
            /\ physMounted' = physMounted

\* Every Mount that returned success, skipped or not, returned the mount
\* point of the fully qualified volume: of the name of the request when that
\* is fully qualified, else of a fully qualified name of the same volume.
OneMountPoint ==
    \A t \in Threads :
        (req[t].op = "Mount" /\ resp[t].how \in {"skipped", "mounted"}) =>
            /\ resp[t].err = ""
            /\ resp[t].mp \in FullNames /\ resp[t].mp.vol = req[t].name.vol
            /\ IsFullVolumeName(req[t].name) => resp[t].mp = req[t].name

MountedIsTracked ==
    \A f \in FullNames :
        (refCounts[f] > 0 /\ hist.nMount[f] > hist.nDecr[f]) =>
            mountedVolumes[f] # NoFS

\* An entry of the mounted-volume table is removed only by an Unmount that
\* takes the count of the volume to zero and whose physical unmount succeeds.
EntryRemovedOnLastUnmount ==
    \A f \in FullNames :
        (mountedVolumes[f] # NoFS /\ mountedVolumes'[f] = NoFS
            /\ \E t \in Threads : req[t].op = "Unmount" /\ pc'[t] # pc[t]) =>
            /\ refCounts'[f] = 0
            /\ \E t \in Threads :
                  /\ pc[t] = "u_backend" /\ pc'[t] = "idle"
                  /\ fname[t] = f /\ backendErr'[t] = ""

\* C25: the entry of a volume in the mounted-volume table is removed by an
\* Unmount only when the count of the volume returns to zero and the
\* physical unmount succeeds; an Unmount that leaves the count at one or
\* more, or whose physical unmount fails, leaves the entry, so that a volume
\* with a positive count that was mounted through Mount always has an entry.
C25_EntryLifecycle == [](MountedIsTracked) /\ [][EntryRemovedOnLastUnmount]_vars

\* No Mount or Unmount call is in progress.
NoCallInProgress ==
    \A t \in Threads : pc[t] \notin {"m_lock", "m_backend", "u_lock", "u_backend"}

\* C26: the dirty flag is set only while a mutation is in flight or recovery
\* has not completed: whenever initSucceeded is true and every Mount and
\* Unmount has returned, the dirty flag is clear.
C26_DirtyMeaning == (initSucceeded /\ NoCallInProgress) => ~dirty

\* C27: Mount and Unmount read and write the mounted-volume table only
\* under the state lock: the table changes only in a step of the call that
\* has the lock, and the lookup that resolves the backend at the start of a
\* Mount or Unmount is never made while another call holds the lock.
C27_TableUnderLock ==
    [][/\ mountedVolumes' # mountedVolumes =>
              \E t \in Threads :
                  \/ MountEnters(t) \/ UnmountEnters(t)
                  \/ (stateLock = t /\ pc'[t] = "idle")
       /\ \A t \in Threads, o \in {"Mount", "Unmount"} :
              Arrives(t, o) => stateLock = 0]_vars

\* A Mount that resolved its name records it under the mount id of the
\* request, and increments the count of that name.
MountRecordsID ==
    \A t \in Threads :
        (MountEnters(t) /\ resp'[t].how # "noinfo") =>
            \E f \in FullNames :
                /\ refCounts' = [refCounts EXCEPT ![f] = @ + 1]
                /\ mountIDtoName' = [mountIDtoName EXCEPT ![req[t].id] = f]

\* A non-deferred Unmount whose mount id is recorded decrements the count of
\* the recorded name and of no other, whatever the name of the request, and
\* removes the association of that id alone.
UnmountUsesRecorded ==
    \A t \in Threads :
        (UnmountEnters(t) /\ initSucceeded /\ mountIDtoName[req[t].id] # NoName) =>
            /\ refCounts' = Decr(refCounts, mountIDtoName[req[t].id]).counts
            /\ hist'.nDecr = [hist.nDecr EXCEPT ![mountIDtoName[req[t].id]] = @ + 1]
            /\ mountIDtoName' = [mountIDtoName EXCEPT ![req[t].id] = NoName]

\* A non-deferred Unmount whose mount id is not recorded decrements the
\* count of the name the resolver gives for the name of the request, or
\* returns the resolver's error; a deferred one leaves the associations.
UnmountRederives ==
    \A t \in Threads :
        /\ (UnmountEnters(t) /\ initSucceeded /\ mountIDtoName[req[t].id] = NoName) =>
              /\ mountIDtoName' = mountIDtoName
              /\ \E metaOK \in BOOLEAN :
                    LET info == GetFullNameAndMeta(req[t].name, "", refCounts, metaOK)
                    IN  IF info.err # ""
                        THEN resp'[t].err = info.err /\ refCounts' = refCounts
                        ELSE /\ refCounts' = Decr(refCounts, info.name).counts
                             /\ hist'.nDecr = [hist.nDecr EXCEPT ![info.name] = @ + 1]
        /\ (UnmountEnters(t) /\ ~initSucceeded) => mountIDtoName' = mountIDtoName

\* C28: Mount records the fully qualified name under the mount id; a
\* non-deferred Unmount with a recorded mount id decrements the count of
\* exactly the recorded name, not of a name derived again, and removes the
\* association, which therefore serves one Unmount at most; an Unmount with
\* an unrecorded mount id derives the name through the resolver.
C28_MountIDAssociation ==
    [][MountRecordsID /\ UnmountUsesRecorded /\ UnmountRederives]_vars

\* A Mount under id1 was recorded as data1@nfs1 and one under id2 as
\* data1@ds1; with both counted the resolver gives the bare name data1@ds1,
\* but the Unmount of the bare name with id1 decremented data1@nfs1, and the
\* association of id1 is gone while that of id2 stays.
C28_Witness ==
    \E t \in Threads :
        /\ initSucceeded /\ Quiescent
        /\ req[t].op = "Unmount" /\ req[t].name = Name("data1", "") /\ req[t].id = "id1"
        /\ resp[t].how = "inuse"
        /\ hist.nMount[Name("data1", "nfs1")] = 1 /\ hist.nDecr[Name("data1", "nfs1")] = 1
        /\ hist.nMount[Name("data1", "ds1")] = 1 /\ hist.nDecr[Name("data1", "ds1")] = 0
        /\ refCounts[Name("data1", "nfs1")] = 1 /\ refCounts[Name("data1", "ds1")] = 1
        /\ mountIDtoName["id1"] = NoName
        /\ mountIDtoName["id2"] = Name("data1", "ds1")

\* The mount ids recorded for the volume f.
RecordedIDs(f) == {i \in MountIDs : mountIDtoName[i] = f}

\* C29: a Mount whose physical mount fails leaves no association behind:
\* when the failed call returns, the mount id of the request is not recorded
\* for the volume, and the mount ids recorded for a volume are never more
\* than its reference count.
C29_FailedMountNoID ==
    /\ [](\A f \in FullNames : Cardinality(RecordedIDs(f)) <= refCounts[f])
    /\ [][\A t \in Threads :
            (pc[t] = "m_backend" /\ pc'[t] = "idle" /\ backendErr'[t] # "") =>
                mountIDtoName'[req[t].id] # fname[t]]_vars

\* The volume f was mounted by a Mount of the bare name and no Unmount has
\* touched it since.
MountedViaBare(name, f) ==
    /\ ~IsFullVolumeName(name)
    /\ \E u \in Threads :
          /\ req[u].op = "Mount" /\ req[u].name = name
          /\ resp[u].how \in {"mounted", "skipped"} /\ resp[u].mp = f
    /\ refCounts[f] > 0
    /\ hist.nUnmount[f] = 0

\* C30: Remove reads the reference count under the key Mount stores it
\* under: a Remove of a bare name through which a volume was mounted, and
\* which has not been unmounted, is refused and calls no backend.
C30_RemoveSameKey ==
    [][\A t \in Threads, f \in FullNames :
        (RemoveArrives(t) /\ MountedViaBare(req'[t].name, f)) =>
            /\ pc'[t] = "idle"
            /\ resp'[t].how = "refused" /\ resp'[t].err # ""
            /\ resp'[t].via = ""]_vars

\* C31: the physical unmount that the last Unmount of a volume issues goes
\* to the backend kind whose physical mount holds the volume, whether the
\* requests named the volume by its bare or its fully qualified name and
\* whatever Mounts and Unmounts changed the mounted-volume table meanwhile.
C31_BackendConsistency ==
    \A t \in Threads :
        (pc[t] = "u_backend" /\ hist.mountedBy[fname[t]] # NoFS) =>
            impl[t] = hist.mountedBy[fname[t]]

\* The Mount of thread t returns from its locked section with an error of
\* the name resolution.
MountFailsResolution(t) ==
    /\ MountEnters(t)
    /\ resp'[t].how = "noinfo"

\* C32: a Mount that fails at name resolution returns the resolution error
\* and no mount point, invokes no backend mount, and leaves every reference
\* count and the tracking table as they were.
C32_ResolutionFailureFrame ==
    [][\A t \in Threads :
          MountFailsResolution(t) =>
              /\ resp'[t].err = GetDatastore(req[t].name, FALSE).err
              /\ resp'[t].err # ""
              /\ resp'[t].mp = NoName
              /\ resp'[t].via = ""
              /\ pc'[t] = "idle"
              /\ hist'.mountInv = hist.mountInv
              /\ physMounted' = physMounted
              /\ refCounts' = refCounts
              /\ mountedVolumes' = mountedVolumes]_vars

\* A bare-name Mount has failed at name resolution while another volume of
\* the same name on a second datastore was counted and tracked.
C32_Witness ==
    \E t \in Threads :
        /\ resp[t].how = "noinfo"
        /\ req[t].op = "Mount"
        /\ \E n \in FullNames : refCounts[n] > 0 /\ mountedVolumes[n] # NoFS

\* No physical mount or unmount of a backend has failed.
NoBackendFailure ==
    \A n \in AllNames : hist.mountFail[n] = 0 /\ hist.umountFail[n] = 0

\* C33: quiescent consistency - in every state where recovery has succeeded,
\* no Mount or Unmount is in progress and no backend call has failed, a
\* volume is physically mounted if and only if its reference count is
\* greater than zero.
C33_QuiescentConsistency ==
    (initSucceeded /\ NoCallInProgress /\ NoBackendFailure) =>
        \A n \in FullNames : (n \in physMounted) <=> (refCounts[n] > 0)

\* Recovery has succeeded and nothing is in progress or has failed; one
\* volume is mounted by a Mount of this process and counted, and another,
\* found mounted by recovery, has been unmounted by its last Unmount.
C33_Witness ==
    /\ initSucceeded /\ NoCallInProgress /\ NoBackendFailure
    /\ \E n, m \in FullNames :
          /\ n # m
          /\ n \in physMounted /\ refCounts[n] > 0 /\ hist.nMount[n] > 0
          /\ m \notin physMounted /\ refCounts[m] = 0 /\ m \in priorMounted
          /\ hist.umountInv[m] > 0

\* The recovery pass writes its seeded counts and completes.
RecoveryWrites == ~initSucceeded /\ initSucceeded'

\* C34: recovery never under-counts in-process mounts - when the recovery
\* pass writes its seeded counts, the count of every volume is at least the
\* number of Mounts of it that this process served with success and that no
\* Unmount has decremented.
C34_RecoveryKeepsMounts ==
    [][RecoveryWrites =>
          \A n \in FullNames : refCounts'[n] >= hist.nMount[n] - hist.nDecr[n]]_vars

\* The last Unmount of f left it mounted: its physical unmount failed after
\* the count was decremented to zero.
LeftMounted(f) ==
    /\ refCounts[f] = 0
    /\ f \in physMounted
    /\ hist.umountFail[f] > 0

\* The Mount of thread t leaves its locked section having resolved its name
\* to f.
MountResolves(t, f) ==
    /\ MountEnters(t)
    /\ resp'[t].how # "noinfo"
    /\ f = AccountName(req[t].name, refCounts)

\* C35: after a last Unmount whose physical unmount failed (count zero,
\* volume still physically mounted), a later Mount of the same volume
\* returns success with the mount point, sets the count to one, and invokes
\* no physical mount.
C35_RemountAfterFailedUnmount ==
    [][\A t \in Threads : \A f \in FullNames :
          (MountResolves(t, f) /\ LeftMounted(f)) =>
              /\ resp'[t].err = ""
              /\ resp'[t].mp = f
              /\ refCounts'[f] = 1
              /\ hist'.mountInv = hist.mountInv
              /\ pc'[t] = "idle"]_vars

\* A volume this process had mounted was left mounted by a failed physical
\* unmount, and a later Mount of it has returned success without a physical
\* mount: one physical mount, one failed unmount, two successful Mounts.
C35_Witness ==
    \E t \in Threads : \E f \in FullNames :
        /\ resp[t].how = "skipped" /\ resp[t].mp = f
        /\ hist.umountFail[f] = 1
        /\ hist.mountInv[f] = 1
        /\ hist.nMount[f] = 2
        /\ refCounts[f] = 1
        /\ f \in physMounted

\* A Mount or Unmount is inside a backend call and holds the state lock.
LockHeldInBackend ==
    \E u \in Threads : pc[u] \in {"m_backend", "u_backend"} /\ stateLock = u

\* The handlers that take no lock.
LockFreeOps == {"Get", "Path", "List", "Create", "Remove"}

\* Thread t takes a step of Get, Path, List, Create or Remove: the request
\* arrives, or the Remove of the backend returns.
LockFreeStep(t) ==
    \/ /\ pc[t] = "idle" /\ nreqs' = nreqs + 1
       /\ req'[t] # req[t] \/ resp'[t] # resp[t]
       /\ req'[t].op \in LockFreeOps
    \/ pc[t] = "r_call" /\ pc'[t] = "idle"

\* Each of the five handlers can take its next step now, for thread t.
CanRun(t) ==
    /\ ENABLED List(t, TRUE, TRUE, <<>>)
    /\ \A name \in ReqNames :
          /\ ENABLED Get(t, name, TRUE)
          /\ ENABLED Path(t, name)
          /\ ENABLED Create(t, name, "", TRUE)
          /\ ENABLED RemoveCheck(t, name)

\* While the lock is held inside a backend call, a free handler thread can
\* serve any of the five requests, and a Remove that has begun can finish.
ServedWhileLocked ==
    LockHeldInBackend =>
        \A t \in Threads :
            /\ (pc[t] = "idle" /\ (\A u \in Threads : u < t => pc[u] # "idle")
                    /\ nreqs < MaxReqs) => CanRun(t)
            /\ pc[t] = "r_call" => ENABLED RemoveCall(t, TRUE)

\* The five handlers neither take nor release the state lock, and all but a
\* Remove that goes on to the backend return in the step they begin.
LockUntouched ==
    \A t \in Threads :
        LockFreeStep(t) =>
            /\ stateLock' = stateLock
            /\ pc'[t] = "idle" \/ (req'[t].op = "Remove" /\ pc'[t] = "r_call")

\* C36: Get, Path, List, Create and Remove never acquire the state lock -
\* each can run to completion while a Mount or Unmount is inside a backend
\* call holding the lock.
C36_LockFreeHandlers == [](ServedWhileLocked) /\ [][LockUntouched]_vars

\* Two requests were made: a Mount, which is inside its backend call holding
\* the lock, and a Remove of the same volume, which read the count that
\* Mount had written and returned its refusal.
C36_Witness ==
    \E u, t \in Threads :
        /\ u < t /\ nreqs = 2
        /\ pc[u] = "m_backend" /\ stateLock = u /\ req[u].op = "Mount"
        /\ pc[t] = "idle" /\ req[t].op = "Remove" /\ req[t].name = fname[u]
        /\ resp[t].how = "refused"

\* The names of the reference map whose part before '@' is that of name.
RefmapMatches(name) == {n \in FullNames : refCounts[n] > 0 /\ n.vol = name.vol}

\* The resolution of (name, datastoreName) as it is documented: the name
\* itself when it has a datastore; else name@datastoreName when one is
\* supplied; else the only match of the reference map when useRefmap; else
\* name@<metadata datastore>, or an error and no name when the metadata
\* cannot be read.
Expected(name, datastoreName, metaOK, useRefmap) ==
    IF name.ds # "" THEN [name |-> name, failed |-> FALSE]
    ELSE IF datastoreName # ""
         THEN [name |-> [vol |-> name.vol, ds |-> datastoreName], failed |-> FALSE]
    ELSE IF useRefmap /\ Cardinality(RefmapMatches(name)) = 1
         THEN [name |-> CHOOSE n \in RefmapMatches(name) : TRUE, failed |-> FALSE]
    ELSE IF metaOK
         THEN [name |-> [vol |-> name.vol, ds |-> MetaDatastore[name.vol]],
               failed |-> FALSE]
    ELSE [name |-> NoName, failed |-> TRUE]

\* The response r is the result e.
Returns(r, e) == (r.err # "") = e.failed /\ r.mp = e.name

HelperStep(op, n) ==
    /\ hist'.nHelper = hist.nHelper + 1
    /\ hist'.helper.op = op
    /\ hist'.helper.name = n

\* C38: the recovery helpers work without reference counting - MountVolume
\* records the backend kind of the volume in the tracking table and calls the
\* backend's mount, UnmountVolume removes the entry of the volume and calls
\* the backend's unmount, and neither changes a reference count.
C38_HelpersUncounted ==
    [][\A n \in FullNames :
          /\ HelperStep("MountVolume", n) =>
                /\ hist'.helper.via = getVolImplWithFSType(mountedVolumes, n)
                /\ mountedVolumes'[n] = hist'.helper.via
                /\ refCounts' = refCounts
          /\ HelperStep("UnmountVolume", n) =>
                /\ hist'.helper.via = getVolImplWithFSType(mountedVolumes, n)
                /\ mountedVolumes'[n] = NoFS
                /\ refCounts' = refCounts]_vars

====
